---- MODULE Spec2Model ----
(***************************************************************************)
(* A model of 3d.c: a third-order tensor of uniform dimension kept in a    *)
(* one-dimensional buffer, rotated in place 90 degrees about one of six    *)
(* axes, with a control loop that renders one section and reads one key.   *)
(* Characters are their ASCII codes; unsigned C integers are reduced       *)
(* modulo their width where the code stores them.                          *)
(***************************************************************************)
EXTENDS Integers, Sequences, FiniteSets, TLC

VARIABLES
    tensor3,    \* the tensor3_t of main
    pc,         \* position of main: "render", "input" or "done"
    screen,     \* what the last tensor3_render put on the terminal
    last_key,   \* the character the last tensor3_process_input read
    last_section, \* history: the section before the last tensor3_process_input
    orig,       \* history: the buffer before the rotate calls listed in calls
    calls,      \* history: the axes of the rotate calls made since orig
    trace,      \* history: the index quartets of the last rotate call, in order
    rotate_ok,  \* history: what the last rotate call returned
    call        \* the last call of a function exercised on its own

vars == <<tensor3, pc, screen, last_key, last_section, orig, calls, trace, rotate_ok, call>>

(***************************************************************************)
(* Program constants and integer widths                                    *)
(***************************************************************************)
TENSOR3_DIM_MIN == 3
TENSOR3_DIM_MAX == 50
UINT8_MAX == 255

uint8(v) == v % 256
uint16(v) == v % 65536
\* No value of the program reaches 2^32: an index is at most 255 + 255 * 50 + 255 * 2500
\* and a size at most 50^3, so storing one in a uint32_t leaves it as it is.
uint32(v) == v

CHAR_A == 65
CHAR_Z == 90
CHAR_NEWLINE == 10

Axes == {"AXIS_XPOSITIVE", "AXIS_XNEGATIVE", "AXIS_YPOSITIVE",
         "AXIS_YNEGATIVE", "AXIS_ZPOSITIVE", "AXIS_ZNEGATIVE"}

(***************************************************************************)
(* Bounds of the model                                                     *)
(***************************************************************************)
MaxDim == 4
MaxCalls == 4
MaxArg == 24

Min(a, b) == IF a < b THEN a ELSE b
Dims == TENSOR3_DIM_MIN .. Min(MaxDim, TENSOR3_DIM_MAX)

(***************************************************************************)
(* Construction                                                            *)
(***************************************************************************)
\* The fill of tensor3_init_from_args: one letter per z-slice.
InitialFill(dimension, i) ==
    uint8(((i \div uint16(dimension * dimension)) % (CHAR_Z - CHAR_A)) + CHAR_A)

\* The fields tensor3_init_from_args sets before it allocates the buffer.
tensor3_fields(dimension) ==
    LET section_size == uint16(dimension * dimension)
    IN  [ buffer |-> <<>>,
          dimension |-> dimension,
          section |-> 0,
          section_size |-> section_size,
          size |-> uint32(section_size * dimension) ]

\* The tensor after a successful tensor3_init_from_args with argv[1] = dimension.
tensor3_init_from_args(dimension) ==
    LET t == tensor3_fields(dimension)
    IN  [t EXCEPT !.buffer = [i \in 0 .. t.size - 1 |-> InitialFill(dimension, i)]]

\* Whether tensor3_init_from_args accepts the parsed dimension.
DimensionAccepted(dimension) ==
    ~(dimension < TENSOR3_DIM_MIN \/ dimension > TENSOR3_DIM_MAX)

(***************************************************************************)
(* Coordinate codec                                                        *)
(***************************************************************************)
Coordinate(x, y, z) == [x |-> x, y |-> y, z |-> z]

\* An encoding that steps z by a row, not by a section.
tensor3_coord_to_index_row(coord, t) ==
    uint32(coord.x + (coord.y * t.dimension) + (coord.z * t.dimension))

tensor3_coord_to_index(coord, t) ==
    uint32(coord.x + (coord.y * t.dimension) + (coord.z * t.section_size))

\* coord is the caller's coordinate, left as it is when the index is refused.
tensor3_index_to_coord(coord, idx, t) ==
    IF idx >= t.size
    THEN [ok |-> FALSE, coord |-> coord]
    ELSE [ok |-> TRUE,
          coord |-> Coordinate(uint8(idx % t.dimension),
                               uint8((idx \div t.dimension) % t.dimension),
                               uint8(idx \div t.section_size))]

(***************************************************************************)
(* Quartet calculator                                                      *)
(***************************************************************************)
Quartet(first, second, third, fourth) ==
    [first |-> first, second |-> second, third |-> third, fourth |-> fourth]

\* quartet_t quartet = { 0 }
ZeroQuartet ==
    Quartet(Coordinate(0, 0, 0), Coordinate(0, 0, 0),
            Coordinate(0, 0, 0), Coordinate(0, 0, 0))

\* A bounds check whose last limit is narrowed to a uint8_t, as offset_end is.
quartet_rejected_narrow(t, section, layer, offset) ==
    \/ section >= t.dimension
    \/ layer >= t.section_size \div 2
    \/ offset >= uint8(t.dimension - 1 - 2 * layer)

\* The bounds check at the head of tensor3_calculate_quartet; the operands are
\* promoted to int, so the right-hand side of the last comparison may be negative.
quartet_rejected(t, section, layer, offset) ==
    \/ section >= t.dimension
    \/ layer >= t.section_size \div 2
    \/ offset >= t.dimension - 1 - 2 * layer

\* The quartet_* operators give the values of the initialiser expressions of one
\* case of the switch, computed in int; storing them in the uint8_t components
\* of the quartet reduces each modulo 256.
C(x, y, z) == Coordinate(x, y, z)

narrow_coordinate(c) == Coordinate(uint8(c.x), uint8(c.y), uint8(c.z))

narrow_quartet(q) ==
    Quartet(narrow_coordinate(q.first), narrow_coordinate(q.second),
            narrow_coordinate(q.third), narrow_coordinate(q.fourth))

\* case AXIS_XPOSITIVE
quartet_xpositive(d, section, layer, offset) ==
    Quartet(C(section, layer, d - 1 - layer - offset),
            C(section, layer + offset, layer),
            C(section, d - 1 - layer, layer + offset),
            C(section, d - 1 - layer - offset, d - 1 - layer))

\* case AXIS_XNEGATIVE
quartet_xnegative(d, section, layer, offset) ==
    Quartet(C(d - 1 - section, layer, layer + offset),
            C(d - 1 - section, layer + offset, d - 1 - layer),
            C(d - 1 - section, d - 1 - layer, d - 1 - layer - offset),
            C(d - 1 - section, d - 1 - layer - offset, layer))

\* case AXIS_YPOSITIVE
quartet_ypositive(d, section, layer, offset) ==
    Quartet(C(layer + offset, section, d - 1 - layer),
            C(d - 1 - layer, section, d - 1 - layer - offset),
            C(d - 1 - layer - offset, section, layer),
            C(layer, section, layer + offset))

\* A y-negative case that turns the same way as AXIS_YPOSITIVE.
quartet_ynegative_same_sense(d, section, layer, offset) ==
    Quartet(C(layer + offset, d - 1 - section, d - 1 - layer),
            C(d - 1 - layer, d - 1 - section, d - 1 - layer - offset),
            C(d - 1 - layer - offset, d - 1 - section, layer),
            C(layer, d - 1 - section, layer + offset))

\* case AXIS_YNEGATIVE
quartet_ynegative(d, section, layer, offset) ==
    Quartet(C(layer + offset, d - 1 - section, layer),
            C(d - 1 - layer, d - 1 - section, layer + offset),
            C(d - 1 - layer - offset, d - 1 - section, d - 1 - layer),
            C(layer, d - 1 - section, d - 1 - layer - offset))

\* A z-positive case whose second and fourth coordinates are exchanged.
quartet_zpositive_reversed(d, section, layer, offset) ==
    Quartet(C(layer + offset, layer, section),
            C(layer, d - 1 - layer - offset, section),
            C(d - 1 - layer - offset, d - 1 - layer, section),
            C(d - 1 - layer, layer + offset, section))

\* case AXIS_ZPOSITIVE
quartet_zpositive(d, section, layer, offset) ==
    Quartet(C(layer + offset, layer, section),
            C(d - 1 - layer, layer + offset, section),
            C(d - 1 - layer - offset, d - 1 - layer, section),
            C(layer, d - 1 - layer - offset, section))

\* case AXIS_ZNEGATIVE
quartet_znegative(d, section, layer, offset) ==
    Quartet(C(d - 1 - layer - offset, layer, d - 1 - section),
            C(layer, layer + offset, d - 1 - section),
            C(layer + offset, d - 1 - layer, d - 1 - section),
            C(d - 1 - layer, d - 1 - layer - offset, d - 1 - section))

\* switch (*axis): the values of the initialiser of the case taken
quartet_values(d, section, layer, offset, axis) ==
    CASE axis = "AXIS_XPOSITIVE" -> quartet_xpositive(d, section, layer, offset)
      [] axis = "AXIS_XNEGATIVE" -> quartet_xnegative(d, section, layer, offset)
      [] axis = "AXIS_YPOSITIVE" -> quartet_ypositive(d, section, layer, offset)
      [] axis = "AXIS_YNEGATIVE" -> quartet_ynegative(d, section, layer, offset)
      [] axis = "AXIS_ZPOSITIVE" -> quartet_zpositive(d, section, layer, offset)
      [] axis = "AXIS_ZNEGATIVE" -> quartet_znegative(d, section, layer, offset)

\* *quartet = (quartet_t){ ... }
quartet_of_axis(t, section, layer, offset, axis) ==
    narrow_quartet(quartet_values(t.dimension, section, layer, offset, axis))

\* quartet is the caller's quartet, left as it is when the call fails.
tensor3_calculate_quartet(t, quartet, section, layer, offset, axis) ==
    IF quartet_rejected(t, section, layer, offset)
    THEN [ok |-> FALSE, quartet |-> quartet]
    ELSE IF axis \in Axes
    THEN [ok |-> TRUE, quartet |-> quartet_of_axis(t, section, layer, offset, axis)]
    ELSE [ok |-> FALSE, quartet |-> quartet]

(***************************************************************************)
(* Rotation engine.  A rotation result is [ok, t, trace]: the return       *)
(* value, the tensor as the call leaves it, and the index quartets         *)
(* <<first, second, third, fourth>> the call has rotated so far.           *)
(***************************************************************************)
\* The four writes without the staging copies: each reads the buffer as the
\* writes before it left it.
quartet_writes_unstaged(buffer, first_idx, second_idx, third_idx, fourth_idx) ==
    LET b1 == [buffer EXCEPT ![first_idx] = buffer[fourth_idx]]
        b2 == [b1 EXCEPT ![second_idx] = b1[first_idx]]
        b3 == [b2 EXCEPT ![third_idx] = b2[second_idx]]
    IN  [b3 EXCEPT ![fourth_idx] = b3[third_idx]]

\* The four writes with the third slot given the first element, not the
\* second: the second element is lost and the first is stored twice.
quartet_writes_second_lost(buffer, first_idx, second_idx, third_idx, fourth_idx) ==
    LET first == buffer[first_idx]
        third == buffer[third_idx]
        fourth == buffer[fourth_idx]
        b1 == [buffer EXCEPT ![first_idx] = fourth]
        b2 == [b1 EXCEPT ![second_idx] = first]
        b3 == [b2 EXCEPT ![third_idx] = first]
    IN  [b3 EXCEPT ![fourth_idx] = third]

\* The four writes of tensor3_rotate_quartet, in the order of the code, each
\* storing a value read before the first write.
quartet_writes(buffer, first_idx, second_idx, third_idx, fourth_idx) ==
    LET first == buffer[first_idx]
        second == buffer[second_idx]
        third == buffer[third_idx]
        fourth == buffer[fourth_idx]
        b1 == [buffer EXCEPT ![first_idx] = fourth]
        b2 == [b1 EXCEPT ![second_idx] = first]
        b3 == [b2 EXCEPT ![third_idx] = second]
    IN  [b3 EXCEPT ![fourth_idx] = third]

tensor3_rotate_quartet(r, section, layer, offset, axis) ==
    LET c == tensor3_calculate_quartet(r.t, ZeroQuartet, section, layer, offset, axis)
        first_idx == tensor3_coord_to_index(c.quartet.first, r.t)
        second_idx == tensor3_coord_to_index(c.quartet.second, r.t)
        third_idx == tensor3_coord_to_index(c.quartet.third, r.t)
        fourth_idx == tensor3_coord_to_index(c.quartet.fourth, r.t)
    IN  IF ~c.ok
        THEN [r EXCEPT !.ok = FALSE]
        ELSE [ok |-> TRUE,
              t |-> [r.t EXCEPT !.buffer =
                        quartet_writes(r.t.buffer, first_idx, second_idx,
                                       third_idx, fourth_idx)],
              trace |-> Append(r.trace,
                               <<first_idx, second_idx, third_idx, fourth_idx>>)]

\* for (uint8_t offset = 0; offset < offset_end; offset++), from offset on
RECURSIVE rotate_layer_from(_, _, _, _, _, _)
rotate_layer_from(r, section, layer, axis, offset, offset_end) ==
    IF ~(offset < offset_end)
    THEN [r EXCEPT !.ok = TRUE]
    ELSE LET q == tensor3_rotate_quartet(r, section, layer, offset, axis)
         IN  IF ~q.ok
             THEN q
             ELSE rotate_layer_from(q, section, layer, axis,
                                    uint8(offset + 1), offset_end)

\* A layer loop that stops one offset early.
tensor3_rotate_layer_short(r, section, layer, axis) ==
    LET offset_end == uint8(r.t.dimension - 2 - 2 * layer)
    IN  rotate_layer_from(r, section, layer, axis, 0, offset_end)

\* A layer loop that runs one offset too far.
tensor3_rotate_layer_long(r, section, layer, axis) ==
    LET offset_end == uint8(r.t.dimension - 2 * layer)
    IN  rotate_layer_from(r, section, layer, axis, 0, offset_end)

tensor3_rotate_layer(r, section, layer, axis) ==
    LET offset_end == uint8(r.t.dimension - 1 - 2 * layer)
    IN  rotate_layer_from(r, section, layer, axis, 0, offset_end)

\* for (uint8_t layer = 0; layer < dimension / 2; layer++), from layer on
RECURSIVE rotate_section_from(_, _, _, _)
rotate_section_from(r, section, axis, layer) ==
    IF ~(layer < r.t.dimension \div 2)
    THEN [r EXCEPT !.ok = TRUE]
    ELSE LET l == tensor3_rotate_layer(r, section, layer, axis)
         IN  IF ~l.ok
             THEN l
             ELSE rotate_section_from(l, section, axis, uint8(layer + 1))

tensor3_rotate_section(r, section, axis) ==
    rotate_section_from(r, section, axis, 0)

\* for (uint8_t section = 0; section < dimension; section++), from section on
RECURSIVE rotate_from(_, _, _)
rotate_from(r, axis, section) ==
    IF ~(section < r.t.dimension)
    THEN [r EXCEPT !.ok = TRUE]
    ELSE LET s == tensor3_rotate_section(r, section, axis)
         IN  IF ~s.ok
             THEN s
             ELSE rotate_from(s, axis, uint8(section + 1))

tensor3_rotate(t, axis) ==
    rotate_from([ok |-> TRUE, t |-> t, trace |-> <<>>], axis, 0)

(***************************************************************************)
(* Renderer                                                                *)
(***************************************************************************)
\* What one iteration of the loop of tensor3_render puts: the element, and a
\* line break after the last element of a row.
render_puts(t, i) ==
    IF i % t.dimension = t.dimension - 1
    THEN <<t.buffer[i], CHAR_NEWLINE>>
    ELSE <<t.buffer[i]>>

\* The output of tensor3_render, one entry per iteration of its loop.  The loop
\* variable and both of its limits are uint16_t; i < index_end keeps i++ from
\* wrapping, so the iterations are those of index_start .. last.
tensor3_render(t) ==
    LET coord == Coordinate(0, 0, t.section)
        index_start == uint16(tensor3_coord_to_index(coord, t))
        index_end == uint16((t.section + 1) * t.section_size)
        last == Min(index_end, t.size) - 1
        count == IF last < index_start THEN 0 ELSE last - index_start + 1
    IN  [k \in 1 .. count |-> render_puts(t, index_start + k - 1)]

(***************************************************************************)
(* Control loop: do { clear; render; } while (process_input)               *)
(***************************************************************************)
\* The axis each rotation key of tensor3_process_input is bound to.
RotationKeys == {"w", "s", "a", "d", "q", "e"}

key_axis(c) ==
    CASE c = "w" -> "AXIS_XNEGATIVE"
      [] c = "s" -> "AXIS_XPOSITIVE"
      [] c = "a" -> "AXIS_YPOSITIVE"
      [] c = "d" -> "AXIS_YNEGATIVE"
      [] c = "q" -> "AXIS_ZNEGATIVE"
      [] c = "e" -> "AXIS_ZPOSITIVE"

\* The section after the arrow-key case: value is the third byte of the sequence.
\* An arrow-key case that does not stop at the last section.
section_after_arrow_unclamped(t, value) ==
    IF value = "A"
    THEN uint8(t.section + 1)
    ELSE IF value = "B" /\ t.section > 0
    THEN uint8(t.section - 1)
    ELSE t.section

section_after_arrow(t, value) ==
    IF value = "A" /\ t.section < t.dimension - 1
    THEN uint8(t.section + 1)
    ELSE IF value = "B" /\ t.section > 0
    THEN uint8(t.section - 1)
    ELSE t.section

Init ==
    /\ \E dimension \in Dims : tensor3 = tensor3_init_from_args(dimension)
    /\ pc = "render"
    /\ screen = <<>>
    /\ last_key = "none"
    /\ last_section = 0
    /\ orig = tensor3.buffer
    /\ calls = <<>>
    /\ trace = <<>>
    /\ rotate_ok = TRUE
    /\ call = [op |-> "none"]

\* terminal_clear(); tensor3_render(&tensor3);
Render ==
    /\ pc = "render"
    /\ screen' = tensor3_render(tensor3)
    /\ pc' = "input"
    /\ UNCHANGED <<tensor3, last_key, last_section, orig, calls, trace, rotate_ok, call>>

\* read() returns 0 or -1: process_input returns false, main restores the terminal.
ReadFail ==
    /\ pc = "input"
    /\ pc' = "done"
    /\ last_key' = "EOF"
    /\ last_section' = tensor3.section
    /\ UNCHANGED <<tensor3, screen, orig, calls, trace, rotate_ok, call>>

\* A quit case that breaks out of the switch, as the other cases do.
QuitBreaks ==
    /\ pc = "input"
    /\ pc' = "render"
    /\ last_key' = "x"
    /\ last_section' = tensor3.section
    /\ UNCHANGED <<tensor3, screen, orig, calls, trace, rotate_ok, call>>

\* case 'x': return false
Quit ==
    /\ pc = "input"
    /\ pc' = "done"
    /\ last_key' = "x"
    /\ last_section' = tensor3.section
    /\ UNCHANGED <<tensor3, screen, orig, calls, trace, rotate_ok, call>>

\* One of the six rotation keys: the return value of tensor3_rotate is dropped.
RotateKey ==
    /\ pc = "input"
    /\ \E c \in RotationKeys :
          LET r == tensor3_rotate(tensor3, key_axis(c))
          IN  /\ last_key' = c
              /\ last_section' = tensor3.section
              /\ tensor3' = r.t
              /\ trace' = r.trace
              /\ rotate_ok' = r.ok
              /\ orig' = tensor3.buffer
              /\ calls' = <<key_axis(c)>>
    /\ pc' = "render"
    /\ UNCHANGED <<screen, call>>

\* case '\x1b': skip '[', then 'A' (up) or 'B' (down) moves the section.
ArrowValues == {"A", "B", "C"}

Escape ==
    /\ pc = "input"
    /\ \E value \in ArrowValues :
          /\ last_key' = "ESC[" \o value
          /\ last_section' = tensor3.section
          /\ tensor3' = [tensor3 EXCEPT !.section = section_after_arrow(tensor3, value)]
    /\ pc' = "render"
    /\ UNCHANGED <<screen, orig, calls, trace, rotate_ok, call>>

\* Any other character: no case of the switch matches.
OtherKey ==
    /\ pc = "input"
    /\ last_key' = "other"
    /\ last_section' = tensor3.section
    /\ pc' = "render"
    /\ UNCHANGED <<tensor3, screen, orig, calls, trace, rotate_ok, call>>

Next == Render \/ ReadFail \/ Quit \/ RotateKey \/ Escape \/ OtherKey

Spec == Init /\ [][Next]_vars

(***************************************************************************)
(* The rotation engine on its own: up to MaxCalls rotate calls on a tensor *)
(* of any dimension of Dims holding any buffer of Fills.                   *)
(***************************************************************************)
\* index + 'A'
IndexFill(i) == uint8(i + CHAR_A)

Fills(size) ==
    { [i \in 0 .. size - 1 |-> IndexFill(i)] }

InitRotate ==
    /\ \E dimension \in Dims :
          LET t == tensor3_init_from_args(dimension)
          IN  \E fill \in Fills(t.size) \cup {t.buffer} :
                 tensor3 = [t EXCEPT !.buffer = fill]
    /\ pc = "input"
    /\ screen = <<>>
    /\ last_key = "none"
    /\ last_section = 0
    /\ orig = tensor3.buffer
    /\ calls = <<>>
    /\ trace = <<>>
    /\ rotate_ok = TRUE
    /\ call = [op |-> "none"]

RotateCall ==
    /\ Len(calls) < MaxCalls
    /\ \E axis \in Axes :
          LET r == tensor3_rotate(tensor3, axis)
          IN  /\ tensor3' = r.t
              /\ trace' = r.trace
              /\ rotate_ok' = r.ok
              /\ calls' = Append(calls, axis)
    /\ UNCHANGED <<pc, screen, last_key, last_section, orig, call>>

SpecRotate == InitRotate /\ [][RotateCall]_vars

(***************************************************************************)
(* Properties of the rotation engine                                       *)
(***************************************************************************)
LastAxis == calls[Len(calls)]

\* How many quartet slots of the last rotate call hold index i.
VisitCount(i) ==
    Cardinality({p \in (1 .. Len(trace)) \X (1 .. 4) : trace[p[1]][p[2]] = i})

\* The coordinate of index i, as tensor3_index_to_coord decodes it.
CoordOf(i) == tensor3_index_to_coord(Coordinate(0, 0, 0), i, tensor3).coord

\* Index i lies on the axis of rotation: the dimension is odd and both of its
\* coordinates across the axis are the middle one.
OnAxis(i, axis) ==
    LET c == CoordOf(i)
        d == tensor3.dimension
        mid == (d - 1) \div 2
    IN  /\ d % 2 = 1
        /\ axis \in {"AXIS_XPOSITIVE", "AXIS_XNEGATIVE"} => c.y = mid /\ c.z = mid
        /\ axis \in {"AXIS_YPOSITIVE", "AXIS_YNEGATIVE"} => c.x = mid /\ c.z = mid
        /\ axis \in {"AXIS_ZPOSITIVE", "AXIS_ZNEGATIVE"} => c.x = mid /\ c.y = mid

\* C1 as stated: the quartets of one rotate call visit every index of the
\* buffer exactly once (no index in two quartets, no index in none).
C1_EveryIndexVisitedOnce ==
    calls # <<>> =>
        \A i \in 0 .. tensor3.size - 1 : VisitCount(i) = 1

\* C1 as the code has it: the quartets of one rotate call visit no index
\* twice, and visit every index exactly once except, when the dimension is
\* odd, the indices on the axis of rotation, which are in no quartet.
C1_VisitedOnceExceptOnAxis ==
    calls # <<>> =>
        \A i \in 0 .. tensor3.size - 1 :
            VisitCount(i) = IF OnAxis(i, LastAxis) THEN 0 ELSE 1

C1_Witness ==
    /\ Len(calls) = 1
    /\ tensor3.dimension = 3
    /\ Cardinality({i \in 0 .. tensor3.size - 1 : VisitCount(i) = 0}) = 3
    /\ Cardinality({i \in 0 .. tensor3.size - 1 : VisitCount(i) = 1}) = 24

\* C2: four consecutive rotate calls about one axis leave the buffer
\* element for element as it was before the first of them.
C2_FourRotationsRestore ==
    (Len(calls) = 4 /\ \A k \in 1 .. 4 : calls[k] = calls[1]) =>
        tensor3.buffer = orig

C2_Witness ==
    /\ calls = <<"AXIS_YNEGATIVE", "AXIS_YNEGATIVE", "AXIS_YNEGATIVE", "AXIS_YNEGATIVE">>
    /\ tensor3.dimension = 4
    /\ orig = [i \in 0 .. tensor3.size - 1 |-> IndexFill(i)]
    /\ tensor3.buffer = orig

Opposite(a, b) ==
    \/ {a, b} = {"AXIS_XPOSITIVE", "AXIS_XNEGATIVE"}
    \/ {a, b} = {"AXIS_YPOSITIVE", "AXIS_YNEGATIVE"}
    \/ {a, b} = {"AXIS_ZPOSITIVE", "AXIS_ZNEGATIVE"}

\* C3: a rotate call about the positive axis of a pair followed by one about
\* the negative axis of the pair, or the other way round, leaves the buffer
\* element for element as it was before the two calls.
C3_OppositeRotationsRestore ==
    (Len(calls) = 2 /\ Opposite(calls[1], calls[2])) =>
        tensor3.buffer = orig

C3_Witness ==
    /\ calls = <<"AXIS_YPOSITIVE", "AXIS_YNEGATIVE">>
    /\ tensor3.dimension = 3
    /\ orig = [i \in 0 .. tensor3.size - 1 |-> IndexFill(i)]
    /\ tensor3.buffer = orig

\* C4: one rotate call about +z turns every z-slice 90 degrees clockwise:
\* the element at (N-1-y, x, z) after the call is the one that was at
\* (x, y, z) before it.
C4_ZPositiveIsClockwise ==
    calls = <<"AXIS_ZPOSITIVE">> =>
        \A x, y, z \in 0 .. tensor3.dimension - 1 :
            tensor3.buffer[tensor3_coord_to_index(
                Coordinate(tensor3.dimension - 1 - y, x, z), tensor3)]
            = orig[tensor3_coord_to_index(Coordinate(x, y, z), tensor3)]

C4_Witness ==
    /\ calls = <<"AXIS_ZPOSITIVE">>
    /\ tensor3.dimension = 4
    /\ orig = [i \in 0 .. tensor3.size - 1 |-> IndexFill(i)]
    /\ tensor3.buffer # orig
    /\ tensor3.buffer[3] = orig[0]

\* The number of quartets of one section: the offsets of every layer.
RECURSIVE SectionQuartets(_, _)
SectionQuartets(d, layer) ==
    IF layer >= d \div 2 THEN 0
    ELSE (d - 1 - 2 * layer) + SectionQuartets(d, layer + 1)

\* C9: the traversal of rotate never hands the quartet calculator a section,
\* layer or offset it rejects: every rotate call returns success, having
\* rotated the quartets of every offset of every layer of every section.
C9_RotateNeverRejected ==
    calls # <<>> =>
        /\ rotate_ok
        /\ Len(trace) = tensor3.dimension * SectionQuartets(tensor3.dimension, 0)

C9_Witness ==
    /\ calls # <<>>
    /\ rotate_ok
    /\ tensor3.dimension = 4
    /\ Len(trace) = 16

\* How many elements of buffer b hold the value v.
Occurrences(b, v) == Cardinality({i \in DOMAIN b : b[i] = v})

\* The values held by buffer b.
Values(b) == {b[i] : i \in DOMAIN b}

\* C11: after any sequence of rotate calls about any mix of the six axes the
\* buffer is a permutation of the buffer before the first call: it still has
\* N^3 elements at the indices 0 .. N^3 - 1, N being the dimension the tensor
\* was built with, and every value occurs in it as many times as before (no
\* element is lost or duplicated by the writes of a quartet).
C11_BufferIsPermutation ==
    /\ DOMAIN tensor3.buffer = 0 .. tensor3.dimension * tensor3.dimension * tensor3.dimension - 1
    /\ DOMAIN orig = DOMAIN tensor3.buffer
    /\ tensor3.size = tensor3.dimension * tensor3.dimension * tensor3.dimension
    /\ \A v \in Values(orig) \cup Values(tensor3.buffer) :
           Occurrences(tensor3.buffer, v) = Occurrences(orig, v)

C11_Witness ==
    /\ Len(calls) = 3
    /\ Cardinality({calls[k] : k \in 1 .. 3}) = 3
    /\ tensor3.dimension = 4
    /\ orig = [i \in 0 .. tensor3.size - 1 |-> InitialFill(tensor3.dimension, i)]
    /\ tensor3.buffer # orig
    /\ Occurrences(tensor3.buffer, CHAR_A) = 16

(***************************************************************************)
(* The coordinate codec on its own: for a tensor of any dimension the      *)
(* program accepts and one z-slice of it, the table of the index of every  *)
(* coordinate of the slice, and the table of the coordinate of every index *)
(* of the slice.                                                           *)
(***************************************************************************)
AllDims == {d \in 0 .. UINT8_MAX : DimensionAccepted(d)}

SliceCoords(d, z) == [x : 0 .. d - 1, y : 0 .. d - 1, z : {z}]

SliceIndices(t, z) == (z * t.section_size) .. ((z + 1) * t.section_size - 1)

InitCodec ==
    /\ \E dimension \in AllDims : tensor3 = tensor3_init_from_args(dimension)
    /\ pc = "input"
    /\ screen = <<>>
    /\ last_key = "none"
    /\ last_section = 0
    /\ orig = <<>>
    /\ calls = <<>>
    /\ trace = <<>>
    /\ rotate_ok = TRUE
    /\ call = [op |-> "none"]

EncodeSlice ==
    /\ call.op = "none"
    /\ \E z \in 0 .. tensor3.dimension - 1 :
          call' = [op |-> "coord_to_index", z |-> z,
                   table |-> [c \in SliceCoords(tensor3.dimension, z) |->
                                 tensor3_coord_to_index(c, tensor3)]]
    /\ UNCHANGED <<tensor3, pc, screen, last_key, last_section, orig, calls, trace, rotate_ok>>

DecodeSlice ==
    /\ call.op = "none"
    /\ \E z \in 0 .. tensor3.dimension - 1 :
          call' = [op |-> "index_to_coord", z |-> z,
                   table |-> [i \in SliceIndices(tensor3, z) |->
                                 tensor3_index_to_coord(Coordinate(0, 0, 0), i, tensor3)]]
    /\ UNCHANGED <<tensor3, pc, screen, last_key, last_section, orig, calls, trace, rotate_ok>>

SpecCodec == InitCodec /\ [][EncodeSlice \/ DecodeSlice]_vars

\* C5: encode and decode are exact inverses: decoding the index of a
\* coordinate gives the coordinate back, and every index below N^3 decodes
\* with success to a coordinate in range that encodes to it.
C5_CodecInverse ==
    /\ call.op = "coord_to_index" =>
          \A c \in SliceCoords(tensor3.dimension, call.z) :
              tensor3_index_to_coord(Coordinate(0, 0, 0), call.table[c], tensor3)
              = [ok |-> TRUE, coord |-> c]
    /\ call.op = "index_to_coord" =>
          \A i \in SliceIndices(tensor3, call.z) :
              /\ call.table[i].ok
              /\ call.table[i].coord \in SliceCoords(tensor3.dimension, call.z)
              /\ tensor3_coord_to_index(call.table[i].coord, tensor3) = i

C5_Witness ==
    /\ tensor3.dimension = TENSOR3_DIM_MAX
    /\ call.op = "index_to_coord"
    /\ call.z = TENSOR3_DIM_MAX - 1
    /\ call.table[tensor3.size - 1] = [ok |-> TRUE, coord |-> Coordinate(49, 49, 49)]

(***************************************************************************)
(* Properties of the control loop                                          *)
(***************************************************************************)
\* C7: the section pointer is always in [0, N-1]; a forward request at N-1
\* and a backward request at 0 leave it where it is, and any other forward or
\* backward request moves it by exactly one.
C7_SectionClamped ==
    LET last == tensor3.dimension - 1
    IN  /\ tensor3.section \in 0 .. last
        /\ last_key = "ESC[A" =>
              tensor3.section = IF last_section = last THEN last ELSE last_section + 1
        /\ last_key = "ESC[B" =>
              tensor3.section = IF last_section = 0 THEN 0 ELSE last_section - 1

C7_Witness ==
    /\ last_key = "ESC[A"
    /\ last_section = tensor3.dimension - 1
    /\ tensor3.section = tensor3.dimension - 1
    /\ calls # <<>>

\* C8: a step of the control loop that reads the quit key ends the loop,
\* whatever came before, changing neither the tensor nor the screen; once the
\* loop has ended nothing is rotated, navigated or rendered any more.
C8_QuitTerminates ==
    [][ /\ (pc = "input" /\ last_key' = "x") =>
              (pc' = "done" /\ tensor3' = tensor3 /\ screen' = screen)
        /\ pc = "done" => UNCHANGED vars ]_vars

C8_Witness ==
    /\ pc = "done"
    /\ last_key = "x"
    /\ calls # <<>>
    /\ tensor3.section > 0
    /\ screen # <<>>

(***************************************************************************)
(* The renderer on its own: one render of a tensor of a dimension of Dims  *)
(* or of the largest dimension the program accepts, at any section the     *)
(* section keys can reach.                                                 *)
(***************************************************************************)
RenderDims == Dims \cup {TENSOR3_DIM_MAX}

InitRender ==
    /\ \E dimension \in RenderDims :
          \E section \in 0 .. dimension - 1 :
             tensor3 = [tensor3_init_from_args(dimension) EXCEPT !.section = section]
    /\ pc = "render"
    /\ screen = <<>>
    /\ last_key = "none"
    /\ last_section = 0
    /\ orig = <<>>
    /\ calls = <<>>
    /\ trace = <<>>
    /\ rotate_ok = TRUE
    /\ call = [op |-> "none"]

SpecRender == InitRender /\ [][Render]_vars

\* Entry k of the N rows of N characters of the current section, in the form
\* of tensor3_render's output: element k of the N^2 elements from
\* section * N^2 on, with a line break after every N-th.
SectionPuts(t, k) ==
    LET element == t.buffer[t.section * t.dimension * t.dimension + k - 1]
    IN  IF k % t.dimension = 0
        THEN <<element, CHAR_NEWLINE>>
        ELSE <<element>>

\* C6: render puts exactly the N^2 elements of the current section, in
\* increasing index order, as N rows of N characters.
C6_RenderShowsSection ==
    pc = "input" =>
        /\ DOMAIN screen = 1 .. tensor3.dimension * tensor3.dimension
        /\ \A k \in 1 .. tensor3.dimension * tensor3.dimension :
              screen[k] = SectionPuts(tensor3, k)

(***************************************************************************)
(* The quartet calculator on its own: one call for a tensor of any         *)
(* dimension the program accepts, with any axis and with section, layer    *)
(* and offset drawn from the small values, the values at the limits of the *)
(* dimension and the largest uint8_t.  The calculator reads no element, so *)
(* the tensor is taken with its fields set and no buffer.                  *)
(***************************************************************************)
ArgValues(d) ==
    (0 .. MaxArg) \cup {d \div 2 - 1, d \div 2, d - 2, d - 1, d, UINT8_MAX}

InitQuartet ==
    /\ \E dimension \in AllDims : tensor3 = tensor3_fields(dimension)
    /\ pc = "input"
    /\ screen = <<>>
    /\ last_key = "none"
    /\ last_section = 0
    /\ orig = <<>>
    /\ calls = <<>>
    /\ trace = <<>>
    /\ rotate_ok = TRUE
    /\ call = [op |-> "none"]

CalculateQuartet ==
    /\ call.op = "none"
    /\ \E axis \in Axes :
          \E section, layer, offset \in ArgValues(tensor3.dimension) :
             call' = [op |-> "calculate_quartet",
                      section |-> section, layer |-> layer, offset |-> offset,
                      axis |-> axis,
                      result |-> tensor3_calculate_quartet(tensor3, ZeroQuartet,
                                     section, layer, offset, axis)]
    /\ UNCHANGED <<tensor3, pc, screen, last_key, last_section, orig, calls, trace, rotate_ok>>

SpecQuartet == InitQuartet /\ [][CalculateQuartet]_vars

QuartetCoordinates(q) == {q.first, q.second, q.third, q.fourth}

\* C10: whenever the quartet calculator returns success, whatever its section,
\* layer and offset, no component of the four coordinates has wrapped round in
\* its uint8_t, every component is in [0, N) and every encoded index is below
\* N^3; and the calculator rejects every layer >= N/2.
C10_AcceptedQuartetInBounds ==
    call.op = "calculate_quartet" =>
        /\ call.result.ok =>
              /\ call.result.quartet =
                    quartet_values(tensor3.dimension, call.section, call.layer,
                                   call.offset, call.axis)
              /\ \A c \in QuartetCoordinates(call.result.quartet) :
                    /\ c.x \in 0 .. tensor3.dimension - 1
                    /\ c.y \in 0 .. tensor3.dimension - 1
                    /\ c.z \in 0 .. tensor3.dimension - 1
                    /\ tensor3_coord_to_index(c, tensor3) < tensor3.size
        /\ call.layer >= tensor3.dimension \div 2 => ~call.result.ok

C10_Witness ==
    /\ call.op = "calculate_quartet"
    /\ call.result.ok
    /\ tensor3.dimension = TENSOR3_DIM_MAX
    /\ call.section = TENSOR3_DIM_MAX - 1
    /\ call.layer = 24
    /\ call.offset = 0

====
